---- MODULE Spec2Model ----
(***************************************************************************)
(* Paired vulnerable / secure Anchor programs of solana-security-patterns. *)
(* Every instruction is one atomic action: the account constraints of its  *)
(* #[derive(Accounts)] struct are evaluated first, then the handler body;  *)
(* an instruction that returns Err persists nothing (abort), one that      *)
(* returns Ok persists the accounts it mutated.                            *)
(***************************************************************************)
EXTENDS Integers, FiniteSets, Sequences, TLC

\* ---------------------------------------------------------------- bounds
NumKeys == 2                    \* number of distinct wallet public keys
Keys    == 1..NumKeys
NoKey   == 0                    \* Option<Pubkey>::None / no account
U16Max  == 65535                \* u16::MAX (fee_bps, recipient_share_bps)

U64Max  == 3                    \* u64::MAX, scaled to a 2-bit word
StartLamports == 2              \* lamports the wallet of a vault owner holds at the start
VaultOwner == 1                 \* program 01: the key whose vault is modelled
PoolAuthority == 1              \* program 05: the key whose pool is modelled
NumStakers == 1                 \* program 05: keys 1..NumStakers have a stake modelled
EscrowCreator == 1              \* program 03: the key whose escrows are modelled
NumEscrowIds == 2               \* program 03: escrow_id ranges over 1..NumEscrowIds
SplitterAuthority == 1          \* program 04: the key whose splitter is modelled
StartTokens == 2                \* program 04: tokens the authority holds at the start

VARIABLES
    vault,         \* program 01: Vault account at seeds [b"vault", k], k in VaultIds
    pda,           \* program 01: lamports of the PDA [b"vault_pda", k]
    wallet,        \* program 01: lamports of the wallet of key k
    last01,        \* program 01: the last instruction, its inputs and result
    config,        \* program 02: the Config account at seeds [b"config"]
    nomination,    \* program 02: history, the last successful nomination
    last02,        \* program 02: the last instruction, its inputs and result
    profile,       \* program 03: Profile account at every profile address
    last03,        \* program 03: the last profile instruction, its inputs and result
    escrow,        \* program 03: Escrow account at every escrow address
    last03e,       \* program 03: the last escrow instruction, its inputs and result
    splitter,      \* program 04: Splitter account at seeds [b"splitter", authority]
    tok,           \* program 04: amount of every SPL token account
    last04,        \* program 04: the last instruction, its inputs and result
    pool,          \* program 05: Pool account at seeds [b"pool", authority]
    stake,         \* program 05: Stake account at seeds [b"stake", pool, owner]
    last05         \* program 05: the last instruction, its inputs and result

vars01 == <<vault, pda, wallet, last01>>
vars02 == <<config, nomination, last02>>
vars05 == <<pool, stake, last05>>
vars03 == <<profile, last03, escrow, last03e>>
vars04 == <<splitter, tok, last04>>
vars == <<vars01, vars02, vars03, vars04, vars05>>

others01 == <<vars02, vars03, vars04, vars05>>
others02 == <<vars01, vars03, vars04, vars05>>
others03 == <<vars01, vars02, vars04, vars05>>
others04 == <<vars01, vars02, vars03, vars05>>
others05 == <<vars01, vars02, vars03, vars04>>

\* =========================================================================
\* Program 01: missing_account_validation
\* =========================================================================
Amounts == 0..U64Max
VaultIds == {VaultOwner}          \* i: the PDAs at seeds [b"vault", key i], [b"vault_pda", key i]

\* A Vault account that was never created by `init`.
NoVault == [init |-> FALSE, owner |-> NoKey, balance |-> 0]

NoCall01 ==
    [op |-> "none", vault |-> NoKey, vault_pda |-> NoKey, owner |-> NoKey,
     signer |-> NoKey, amount |-> 0, err |-> "none"]

\* The record of a call: its inputs are kept when the account constraints
\* passed (chk = "Ok"), a call rejected by a constraint keeps its error only.
Call01(op, chk, v, p, owner, signer, amount, err) ==
    IF chk = "Ok"
    THEN [op |-> op, vault |-> v, vault_pda |-> p, owner |-> owner,
          signer |-> signer, amount |-> amount, err |-> err]
    ELSE [op |-> op, vault |-> NoKey, vault_pda |-> NoKey, owner |-> NoKey,
          signer |-> NoKey, amount |-> 0, err |-> err]

\* The accounts of one instruction as its handler sees them.  `v` and `p`
\* name the key whose [b"vault", key] / [b"vault_pda", key] address was passed.
Accts01(vaultData, pdaLamports, signerLamports) ==
    [vault |-> vaultData, vault_pda |-> pdaLamports, signer |-> signerLamports]

\* ---- account constraints -------------------------------------------------
\* InitializeVault: vault is `init` at seeds [b"vault", owner], vault_pda at
\* seeds [b"vault_pda", owner], owner: Signer.
InitializeVault(vaults, v, p, owner, is_signer) ==
    IF ~is_signer THEN "AccountNotSigner"
    ELSE IF v # owner THEN "ConstraintSeeds"
    ELSE IF vaults[v].init THEN "AccountAlreadyInUse"
    ELSE IF p # owner THEN "ConstraintSeeds"
    ELSE "Ok"

\* Deposit: vault at seeds [b"vault", owner] with has_one = owner, vault_pda
\* at seeds [b"vault_pda", owner], owner: Signer.
Deposit(vaults, v, p, owner, is_signer) ==
    IF ~vaults[v].init THEN "AccountNotInitialized"
    ELSE IF ~is_signer THEN "AccountNotSigner"
    ELSE IF v # owner THEN "ConstraintSeeds"
    ELSE IF vaults[v].owner # owner THEN "ConstraintHasOne"
    ELSE IF p # owner THEN "ConstraintSeeds"
    ELSE "Ok"

\* SecureWithdraw: vault at seeds [b"vault", owner] with
\* has_one = owner @ UnauthorizedWithdrawal, vault_pda at seeds
\* [b"vault_pda", owner]; `owner` is an AccountInfo, `withdrawer` the Signer.
\* No constraint mentions `withdrawer`.
SecureWithdraw(vaults, v, p, owner, withdrawer, is_signer) ==
    IF ~vaults[v].init THEN "AccountNotInitialized"
    ELSE IF ~is_signer THEN "AccountNotSigner"
    ELSE IF v # owner THEN "ConstraintSeeds"
    ELSE IF vaults[v].owner # owner THEN "UnauthorizedWithdrawal"
    ELSE IF p # owner THEN "ConstraintSeeds"
    ELSE "Ok"

\* VulnerableWithdraw: vault and vault_pda are unchecked AccountInfo,
\* withdrawer: Signer.
VulnerableWithdraw(is_signer) ==
    IF ~is_signer THEN "AccountNotSigner" ELSE "Ok"

\* ---- handler bodies: [err, the accounts as the handler left them] ---------
initialize_vault(a, owner) ==
    [err |-> "Ok",
     a |-> [a EXCEPT !.vault = [init |-> TRUE, owner |-> owner, balance |-> 0]]]

\* system_instruction::transfer(owner -> vault_pda), then
\* vault.balance.checked_add(amount).unwrap()
deposit(a, amount) ==
    IF a.signer < amount THEN [err |-> "InsufficientLamports", a |-> a]
    ELSE LET a1 == [a EXCEPT !.signer = @ - amount, !.vault_pda = @ + amount]
         IN  IF a1.vault.balance + amount > U64Max
             THEN [err |-> "Panic", a |-> a1]
             ELSE [err |-> "Ok", a |-> [a1 EXCEPT !.vault.balance = @ + amount]]

\* The vault data is whatever the passed account holds.
vulnerable_withdraw_NoOwnerCheck(a, withdrawer, amount) ==
    IF ~(a.vault.balance >= amount) THEN [err |-> "InsufficientFunds", a |-> a]
    ELSE IF a.vault_pda < amount THEN [err |-> "LamportUnderflow", a |-> a]
    ELSE [err |-> "Ok",
          a |-> [a EXCEPT !.vault_pda = @ - amount, !.signer = @ + amount]]

vulnerable_withdraw(a, withdrawer, amount) ==
    IF a.vault.owner # withdrawer THEN [err |-> "UnauthorizedWithdrawal", a |-> a]
    ELSE IF ~(a.vault.balance >= amount) THEN [err |-> "InsufficientFunds", a |-> a]
    ELSE IF a.vault_pda < amount THEN [err |-> "LamportUnderflow", a |-> a]
    ELSE [err |-> "Ok",
          a |-> [a EXCEPT !.vault_pda = @ - amount, !.signer = @ + amount]]

secure_withdraw(a, amount) ==
    IF ~(a.vault.balance >= amount) THEN [err |-> "InsufficientFunds", a |-> a]
    ELSE LET a1 == [a EXCEPT !.vault.balance = @ - amount]
         IN  IF a1.vault_pda < amount
             THEN [err |-> "LamportUnderflow", a |-> a1]
             ELSE [err |-> "Ok",
                   a |-> [a1 EXCEPT !.vault_pda = @ - amount, !.signer = @ + amount]]

\* ---- instructions ---------------------------------------------------------
\* Persist the accounts of a successful instruction.
Persist01(r, v, p, signer) ==
    /\ vault'  = IF r.err = "Ok" THEN [vault EXCEPT ![v] = r.a.vault] ELSE vault
    /\ pda'    = IF r.err = "Ok" THEN [pda EXCEPT ![p] = r.a.vault_pda] ELSE pda
    /\ wallet' = IF r.err = "Ok" THEN [wallet EXCEPT ![signer] = r.a.signer] ELSE wallet

DoInitializeVault ==
    \E v \in VaultIds, p \in VaultIds, owner \in Keys, is_signer \in BOOLEAN :
        LET a   == Accts01(vault[v], pda[p], wallet[owner])
            chk == InitializeVault(vault, v, p, owner, is_signer)
            r   == IF chk = "Ok" THEN initialize_vault(a, owner)
                   ELSE [err |-> chk, a |-> a]
        IN /\ Persist01(r, v, p, owner)
           /\ last01' = Call01("initialize_vault", chk, v, p, owner, owner, 0, r.err)
           /\ UNCHANGED others01

DoDeposit ==
    \E v \in VaultIds, p \in VaultIds, owner \in Keys, is_signer \in BOOLEAN,
       amount \in Amounts :
        LET a   == Accts01(vault[v], pda[p], wallet[owner])
            chk == Deposit(vault, v, p, owner, is_signer)
            r   == IF chk = "Ok" THEN deposit(a, amount)
                   ELSE [err |-> chk, a |-> a]
        IN /\ Persist01(r, v, p, owner)
           /\ last01' = Call01("deposit", chk, v, p, owner, owner, amount, r.err)
           /\ UNCHANGED others01

\* The account passed as `vault` holds arbitrary data (fake_owner,
\* fake_balance): an account the caller made, or a real Vault.
DoVulnerableWithdraw ==
    \E fake_owner \in Keys, fake_balance \in Amounts, p \in VaultIds,
       withdrawer \in Keys, is_signer \in BOOLEAN, amount \in Amounts :
        LET a   == Accts01([init |-> TRUE, owner |-> fake_owner,
                            balance |-> fake_balance], pda[p], wallet[withdrawer])
            chk == VulnerableWithdraw(is_signer)
            r   == IF chk = "Ok" THEN vulnerable_withdraw(a, withdrawer, amount)
                   ELSE [err |-> chk, a |-> a]
        IN /\ pda'    = IF r.err = "Ok" THEN [pda EXCEPT ![p] = r.a.vault_pda] ELSE pda
           /\ wallet' = IF r.err = "Ok" THEN [wallet EXCEPT ![withdrawer] = r.a.signer]
                        ELSE wallet
           /\ last01' = Call01("vulnerable_withdraw", chk, NoKey, p, fake_owner,
                               withdrawer, amount, r.err)
           /\ UNCHANGED <<vault, others01>>

DoSecureWithdraw ==
    \E v \in VaultIds, p \in VaultIds, owner \in Keys, withdrawer \in Keys,
       is_signer \in BOOLEAN, amount \in Amounts :
        LET a   == Accts01(vault[v], pda[p], wallet[withdrawer])
            chk == SecureWithdraw(vault, v, p, owner, withdrawer, is_signer)
            r   == IF chk = "Ok" THEN secure_withdraw(a, amount)
                   ELSE [err |-> chk, a |-> a]
        IN /\ Persist01(r, v, p, withdrawer)
           /\ last01' = Call01("secure_withdraw", chk, v, p, owner, withdrawer,
                               amount, r.err)
           /\ UNCHANGED others01

Init01 ==
    /\ vault = [k \in VaultIds |-> NoVault]
    /\ pda = [k \in VaultIds |-> 0]
    /\ wallet = [k \in Keys |-> IF k \in VaultIds THEN StartLamports ELSE 0]
    /\ last01 = NoCall01

\* The instructions a vault is meant to be used through.
Next01Secure ==
    \/ DoInitializeVault
    \/ DoDeposit
    \/ DoSecureWithdraw

\* Every instruction of the program.
Next01 ==
    \/ DoInitializeVault
    \/ DoDeposit
    \/ DoVulnerableWithdraw
    \/ DoSecureWithdraw

\* =========================================================================
\* Program 02: missing_authority_check
\* =========================================================================
FeeMax == 1000                  \* require!(new_fee_bps <= 1000, ...)
MaxDepositInit == 1000000000    \* config.max_deposit, scaled by 1/1000
Fees == {0, FeeMax, FeeMax + 1, U16Max}

\* A Config account that was never created by `init`.
NoConfig ==
    [init |-> FALSE, admin |-> NoKey, pending_admin |-> NoKey,
     fee_bps |-> 0, max_deposit |-> 0, is_paused |-> FALSE]

NoCall02 ==
    [op |-> "none", signer |-> NoKey, is_signer |-> FALSE, key |-> NoKey,
     fee |-> 0, pause |-> FALSE, err |-> "none"]

Call02(op, signer, is_signer, key, fee, pause, err) ==
    [op |-> op, signer |-> signer, is_signer |-> is_signer, key |-> key,
     fee |-> fee, pause |-> pause, err |-> err]

\* ---- account constraints -------------------------------------------------
\* Initialize: `init` creates the config PDA, which fails when it exists.
Initialize_InitIfNeeded(cfg, is_signer) ==
    IF ~is_signer THEN "AccountNotSigner" ELSE "Ok"

Initialize(cfg, is_signer) ==
    IF ~is_signer THEN "AccountNotSigner"
    ELSE IF cfg.init THEN "AccountAlreadyInUse"
    ELSE "Ok"

\* SecureUpdateConfig: admin: Signer, has_one = admin @ Unauthorized.
SecureUpdateConfig_NoHasOne(cfg, admin, is_signer) ==
    IF ~cfg.init THEN "AccountNotInitialized"
    ELSE IF ~is_signer THEN "AccountNotSigner"
    ELSE "Ok"

SecureUpdateConfig(cfg, admin, is_signer) ==
    IF ~cfg.init THEN "AccountNotInitialized"
    ELSE IF ~is_signer THEN "AccountNotSigner"
    ELSE IF cfg.admin # admin THEN "Unauthorized"
    ELSE "Ok"

\* SecureNominateAdmin: the same constraints as SecureUpdateConfig.
SecureNominateAdmin_NoHasOne(cfg, admin, is_signer) ==
    IF ~cfg.init THEN "AccountNotInitialized"
    ELSE IF ~is_signer THEN "AccountNotSigner"
    ELSE "Ok"

SecureNominateAdmin(cfg, admin, is_signer) ==
    IF ~cfg.init THEN "AccountNotInitialized"
    ELSE IF ~is_signer THEN "AccountNotSigner"
    ELSE IF cfg.admin # admin THEN "Unauthorized"
    ELSE "Ok"

\* SecureAcceptAdmin: new_admin: Signer, no has_one.
SecureAcceptAdmin(cfg, new_admin, is_signer) ==
    IF ~cfg.init THEN "AccountNotInitialized"
    ELSE IF ~is_signer THEN "AccountNotSigner"
    ELSE "Ok"

\* ---- handler bodies: [err, config as the handler left it in memory] ------
initialize(cfg, admin, initial_fee_bps) ==
    [err |-> "Ok",
     config |-> [init |-> TRUE, admin |-> admin, pending_admin |-> NoKey,
                 fee_bps |-> initial_fee_bps, max_deposit |-> MaxDepositInit,
                 is_paused |-> FALSE]]

secure_update_fee(cfg, new_fee_bps) ==
    IF ~(new_fee_bps <= FeeMax) THEN [err |-> "FeeTooHigh", config |-> cfg]
    ELSE [err |-> "Ok", config |-> [cfg EXCEPT !.fee_bps = new_fee_bps]]

secure_nominate_admin(cfg, new_admin) ==
    [err |-> "Ok", config |-> [cfg EXCEPT !.pending_admin = new_admin]]

secure_accept_admin(cfg, new_admin) ==
    IF cfg.pending_admin = NoKey THEN [err |-> "NoPendingAdmin", config |-> cfg]
    ELSE IF cfg.pending_admin # new_admin
         THEN [err |-> "NotPendingAdmin", config |-> cfg]
    ELSE [err |-> "Ok",
          config |-> [cfg EXCEPT !.admin = new_admin, !.pending_admin = NoKey]]

secure_pause(cfg, pause) ==
    [err |-> "Ok", config |-> [cfg EXCEPT !.is_paused = pause]]

\* ---- instructions ---------------------------------------------------------
DoInitialize ==
    \E admin \in Keys, is_signer \in BOOLEAN, fee \in Fees :
        LET chk == Initialize(config, is_signer)
            r   == IF chk = "Ok" THEN initialize(config, admin, fee)
                   ELSE [err |-> chk, config |-> config]
        IN /\ config' = IF r.err = "Ok" THEN r.config ELSE config
           /\ last02' = Call02("initialize", admin, is_signer, NoKey, fee, FALSE, r.err)
           /\ UNCHANGED <<nomination, others02>>

DoSecureUpdateFee ==
    \E admin \in Keys, is_signer \in BOOLEAN, fee \in Fees :
        LET chk == SecureUpdateConfig(config, admin, is_signer)
            r   == IF chk = "Ok" THEN secure_update_fee(config, fee)
                   ELSE [err |-> chk, config |-> config]
        IN /\ config' = IF r.err = "Ok" THEN r.config ELSE config
           /\ last02' = Call02("secure_update_fee", admin, is_signer, NoKey, fee, FALSE, r.err)
           /\ UNCHANGED <<nomination, others02>>

DoSecurePause ==
    \E admin \in Keys, is_signer \in BOOLEAN, pause \in BOOLEAN :
        LET chk == SecureUpdateConfig(config, admin, is_signer)
            r   == IF chk = "Ok" THEN secure_pause(config, pause)
                   ELSE [err |-> chk, config |-> config]
        IN /\ config' = IF r.err = "Ok" THEN r.config ELSE config
           /\ last02' = Call02("secure_pause", admin, is_signer, NoKey, 0, pause, r.err)
           /\ UNCHANGED <<nomination, others02>>

DoSecureNominateAdmin ==
    \E admin \in Keys, is_signer \in BOOLEAN, new_admin \in Keys :
        LET chk == SecureNominateAdmin(config, admin, is_signer)
            r   == IF chk = "Ok" THEN secure_nominate_admin(config, new_admin)
                   ELSE [err |-> chk, config |-> config]
        IN /\ config' = IF r.err = "Ok" THEN r.config ELSE config
           /\ nomination' = IF r.err = "Ok"
                            THEN [by |-> admin, who |-> new_admin]
                            ELSE nomination
           /\ last02' = Call02("secure_nominate_admin", admin, is_signer, new_admin, 0, FALSE, r.err)
           /\ UNCHANGED others02

DoSecureAcceptAdmin ==
    \E new_admin \in Keys, is_signer \in BOOLEAN :
        LET chk == SecureAcceptAdmin(config, new_admin, is_signer)
            r   == IF chk = "Ok" THEN secure_accept_admin(config, new_admin)
                   ELSE [err |-> chk, config |-> config]
        IN /\ config' = IF r.err = "Ok" THEN r.config ELSE config
           /\ last02' = Call02("secure_accept_admin", new_admin, is_signer, NoKey, 0, FALSE, r.err)
           /\ UNCHANGED <<nomination, others02>>

\* ---- the vulnerable instructions -----------------------------------------
\* VulnerableUpdateConfig: new_admin is an AccountInfo, caller the Signer.
VulnerableUpdateConfig(cfg, is_signer) ==
    IF ~cfg.init THEN "AccountNotInitialized"
    ELSE IF ~is_signer THEN "AccountNotSigner"
    ELSE "Ok"

VulnerableTransferAdmin_HasOne(cfg, caller, is_signer) ==
    IF ~cfg.init THEN "AccountNotInitialized"
    ELSE IF ~is_signer THEN "AccountNotSigner"
    ELSE IF cfg.admin # caller THEN "Unauthorized"
    ELSE "Ok"

VulnerableTransferAdmin(cfg, caller, is_signer) ==
    IF ~cfg.init THEN "AccountNotInitialized"
    ELSE IF ~is_signer THEN "AccountNotSigner"
    ELSE "Ok"

vulnerable_update_fee(cfg, new_admin, new_fee_bps) ==
    IF ~(cfg.admin = new_admin) THEN [err |-> "Unauthorized", config |-> cfg]
    ELSE [err |-> "Ok", config |-> [cfg EXCEPT !.fee_bps = new_fee_bps]]

vulnerable_transfer_admin(cfg, new_admin) ==
    [err |-> "Ok", config |-> [cfg EXCEPT !.admin = new_admin]]

DoVulnerableUpdateFee ==
    \E caller \in Keys, is_signer \in BOOLEAN, new_admin \in Keys, fee \in Fees :
        LET chk == VulnerableUpdateConfig(config, is_signer)
            r   == IF chk = "Ok" THEN vulnerable_update_fee(config, new_admin, fee)
                   ELSE [err |-> chk, config |-> config]
        IN /\ config' = IF r.err = "Ok" THEN r.config ELSE config
           /\ last02' = Call02("vulnerable_update_fee", caller, is_signer, new_admin,
                               fee, FALSE, r.err)
           /\ UNCHANGED <<nomination, others02>>

DoVulnerableTransferAdmin ==
    \E caller \in Keys, is_signer \in BOOLEAN, new_admin \in Keys :
        LET chk == VulnerableTransferAdmin(config, caller, is_signer)
            r   == IF chk = "Ok" THEN vulnerable_transfer_admin(config, new_admin)
                   ELSE [err |-> chk, config |-> config]
        IN /\ config' = IF r.err = "Ok" THEN r.config ELSE config
           /\ last02' = Call02("vulnerable_transfer_admin", caller, is_signer,
                               new_admin, 0, FALSE, r.err)
           /\ UNCHANGED <<nomination, others02>>

Init02 ==
    /\ config = NoConfig
    /\ nomination = [by |-> NoKey, who |-> NoKey]
    /\ last02 = NoCall02


\* =========================================================================
\* Program 03: incorrect_pda_derivation (the profile instructions)
\* A seed is a byte string, written as a number: the 32 bytes of key k are k,
\* the bytes of the two other usernames are the numbers above NumKeys.  A String
\* holds valid UTF-8 only, so the bytes of a key are a username only for the
\* keys in Utf8Keys.
\* =========================================================================
UsernameMaxLen == 32            \* #[max_len(32)] pub username: String
MaxSeedLen == 32                \* the longest seed a program address takes
Utf8Keys == {1}                 \* keys whose 32 bytes are valid UTF-8
KeyBytes(k) == k                \* authority.key().as_ref()

ShortName == [bytes |-> NumKeys + 1, len |-> 5]
LongName == [bytes |-> NumKeys + 2, len |-> UsernameMaxLen + 1]
Usernames == [bytes : Utf8Keys, len : {32}] \cup {ShortName, LongName}
NoUsername == [bytes |-> 0, len |-> 0]

\* The program address of seeds [b"profile", bytes]: one address per seed.
ProfilePda(bytes) == bytes
ProfileAddrs == 1..(NumKeys + 1)

NoProfile ==
    [init |-> FALSE, authority |-> NoKey, username |-> NoUsername,
     reputation |-> 0, bump |-> "zero"]

NoCall03 ==
    [op |-> "none", signer |-> NoKey, is_signer |-> FALSE, addr |-> 0,
     username |-> NoUsername, err |-> "none"]

Call03(op, signer, is_signer, addr, username, err) ==
    [op |-> op, signer |-> signer, is_signer |-> is_signer, addr |-> addr,
     username |-> username, err |-> err]

\* ---- account constraints -------------------------------------------------
VulnerableCreateProfile(profiles, addr, payer, is_signer, username) ==
    IF ~is_signer THEN "AccountNotSigner"
    ELSE IF username.len > MaxSeedLen THEN "MaxSeedLengthExceeded"
    ELSE IF addr # ProfilePda(username.bytes) THEN "ConstraintSeeds"
    ELSE IF profiles[addr].init THEN "AccountAlreadyInUse"
    ELSE "Ok"

SecureCreateProfile_UsernameSeeds(profiles, addr, authority, is_signer, username) ==
    VulnerableCreateProfile(profiles, addr, authority, is_signer, username)

SecureCreateProfile(profiles, addr, authority, is_signer, username) ==
    IF ~is_signer THEN "AccountNotSigner"
    ELSE IF addr # ProfilePda(KeyBytes(authority)) THEN "ConstraintSeeds"
    ELSE IF profiles[addr].init THEN "AccountAlreadyInUse"
    ELSE "Ok"

\* ---- handler bodies --------------------------------------------------------
\* The account is written back when the handler returns: a username longer
\* than the space reserved for it does not serialize.
vulnerable_create_profile(payer, username) ==
    IF username.len > UsernameMaxLen
    THEN [err |-> "AccountDidNotSerialize", profile |-> NoProfile]
    ELSE [err |-> "Ok",
          profile |-> [init |-> TRUE, authority |-> payer, username |-> username,
                       reputation |-> 0, bump |-> "zero"]]

secure_create_profile(authority, username) ==
    IF username.len > UsernameMaxLen
    THEN [err |-> "AccountDidNotSerialize", profile |-> NoProfile]
    ELSE [err |-> "Ok",
          profile |-> [init |-> TRUE, authority |-> authority, username |-> username,
                       reputation |-> 0, bump |-> "canonical"]]

\* ---- instructions ---------------------------------------------------------
DoVulnerableCreateProfile ==
    \E addr \in ProfileAddrs, payer \in Keys, is_signer \in BOOLEAN,
       username \in Usernames :
        LET chk == VulnerableCreateProfile(profile, addr, payer, is_signer, username)
            r   == IF chk = "Ok" THEN vulnerable_create_profile(payer, username)
                   ELSE [err |-> chk]
        IN /\ profile' = IF r.err = "Ok" THEN [profile EXCEPT ![addr] = r.profile]
                         ELSE profile
           /\ last03' = Call03("vulnerable_create_profile", payer, is_signer, addr,
                               username, r.err)
           /\ UNCHANGED <<escrow, last03e, others03>>

DoSecureCreateProfile ==
    \E addr \in ProfileAddrs, authority \in Keys, is_signer \in BOOLEAN,
       username \in Usernames :
        LET chk == SecureCreateProfile(profile, addr, authority, is_signer, username)
            r   == IF chk = "Ok" THEN secure_create_profile(authority, username)
                   ELSE [err |-> chk]
        IN /\ profile' = IF r.err = "Ok" THEN [profile EXCEPT ![addr] = r.profile]
                         ELSE profile
           /\ last03' = Call03("secure_create_profile", authority, is_signer, addr,
                               username, r.err)
           /\ UNCHANGED <<escrow, last03e, others03>>

\* ---- escrows ---------------------------------------------------------------
\* An escrow lives at the program address of seeds [b"escrow", creator,
\* recipient, escrow_id] with the canonical bump.  The addresses modelled are
\* those of EscrowCreator's escrows for the last key.  The pool instructions
\* of this program write Pool accounts only and are left out.
EscrowRecipient == NumKeys
EscrowSeeds == {EscrowCreator} \X {EscrowRecipient} \X (1..NumEscrowIds)
NoSeeds == <<NoKey, NoKey, 0>>
Bumps == {254, 255}             \* the u8 bumps tried
Amounts03 == 0..U64Max

\* find_program_address: the bump that puts the address of these seeds off the
\* curve; it depends on the seeds.
CanonicalBump(seeds) == 255 - (seeds[3] % 2)

\* create_program_address(seeds ++ [bump]): a different bump gives a different
\* address.
EscrowPda(seeds, bump) == <<seeds, bump>>
EscrowAddr(seeds) == EscrowPda(seeds, CanonicalBump(seeds))
EscrowAddrs == {EscrowAddr(sd) : sd \in EscrowSeeds}

NoEscrow ==
    [init |-> FALSE, creator |-> NoKey, recipient |-> NoKey, amount |-> 0,
     escrow_id |-> 0, bump |-> 0]

NoCall03e ==
    [op |-> "none", addr |-> EscrowPda(NoSeeds, 0), signer |-> NoKey, arg |-> 0,
     err |-> "none"]

\* The record of a call: its inputs are kept when the account constraints
\* passed (chk = "Ok").
Call03e(op, chk, addr, signer, arg, err) ==
    IF chk = "Ok"
    THEN [op |-> op, addr |-> addr, signer |-> signer, arg |-> arg, err |-> err]
    ELSE [NoCall03e EXCEPT !.op = op, !.err = err]

\* ---- account constraints -------------------------------------------------
VulnerableCreateEscrow(escrows, addr, creator, is_signer, recipient, escrow_id) ==
    IF ~is_signer THEN "AccountNotSigner"
    ELSE IF addr # EscrowAddr(<<creator, recipient, escrow_id>>) THEN "ConstraintSeeds"
    ELSE IF escrows[addr].init THEN "AccountAlreadyInUse"
    ELSE "Ok"

SecureCreateEscrow(escrows, addr, creator, is_signer, recipient, escrow_id) ==
    IF ~is_signer THEN "AccountNotSigner"
    ELSE IF addr # EscrowAddr(<<creator, recipient, escrow_id>>) THEN "ConstraintSeeds"
    ELSE IF escrows[addr].init THEN "AccountAlreadyInUse"
    ELSE "Ok"

SecureAccessEscrow_NoHasOne(escrows, addr, creator, is_signer) ==
    LET e == escrows[addr]
    IN  IF ~e.init THEN "AccountNotInitialized"
        ELSE IF ~is_signer THEN "AccountNotSigner"
        ELSE IF addr # EscrowPda(<<e.creator, e.recipient, e.escrow_id>>, e.bump)
        THEN "ConstraintSeeds"
        ELSE "Ok"

SecureAccessEscrow(escrows, addr, creator, is_signer) ==
    LET e == escrows[addr]
    IN  IF ~e.init THEN "AccountNotInitialized"
        ELSE IF ~is_signer THEN "AccountNotSigner"
        ELSE IF addr # EscrowPda(<<e.creator, e.recipient, e.escrow_id>>, e.bump)
        THEN "ConstraintSeeds"
        ELSE IF e.creator # creator THEN "ConstraintHasOne"
        ELSE "Ok"

\* ---- handler bodies --------------------------------------------------------
vulnerable_create_escrow(creator, recipient, escrow_id, bump) ==
    [err |-> "Ok",
     escrow |-> [init |-> TRUE, creator |-> creator, recipient |-> recipient,
                 amount |-> 0, escrow_id |-> escrow_id, bump |-> bump]]

secure_create_escrow(creator, recipient, escrow_id) ==
    [err |-> "Ok",
     escrow |-> [init |-> TRUE, creator |-> creator, recipient |-> recipient,
                 amount |-> 0, escrow_id |-> escrow_id,
                 bump |-> CanonicalBump(<<creator, recipient, escrow_id>>)]]

\* escrow.amount.checked_add(amount).unwrap()
secure_deposit_to_escrow(e, amount) ==
    IF e.amount + amount > U64Max
    THEN [err |-> "Panic", escrow |-> e]
    ELSE [err |-> "Ok", escrow |-> [e EXCEPT !.amount = @ + amount]]

\* ---- instructions ---------------------------------------------------------
DoVulnerableCreateEscrow ==
    \E addr \in EscrowAddrs, creator \in Keys, is_signer \in BOOLEAN,
       recipient \in Keys, escrow_id \in 1..NumEscrowIds, bump \in Bumps :
        LET chk == VulnerableCreateEscrow(escrow, addr, creator, is_signer,
                                          recipient, escrow_id)
            r   == IF chk = "Ok"
                   THEN vulnerable_create_escrow(creator, recipient, escrow_id, bump)
                   ELSE [err |-> chk]
        IN /\ escrow' = IF r.err = "Ok" THEN [escrow EXCEPT ![addr] = r.escrow]
                        ELSE escrow
           /\ last03e' = Call03e("vulnerable_create_escrow", chk, addr, creator,
                                 bump, r.err)
           /\ UNCHANGED <<profile, last03, others03>>

DoSecureCreateEscrow ==
    \E addr \in EscrowAddrs, creator \in Keys, is_signer \in BOOLEAN,
       recipient \in Keys, escrow_id \in 1..NumEscrowIds :
        LET chk == SecureCreateEscrow(escrow, addr, creator, is_signer,
                                      recipient, escrow_id)
            r   == IF chk = "Ok"
                   THEN secure_create_escrow(creator, recipient, escrow_id)
                   ELSE [err |-> chk]
        IN /\ escrow' = IF r.err = "Ok" THEN [escrow EXCEPT ![addr] = r.escrow]
                        ELSE escrow
           /\ last03e' = Call03e("secure_create_escrow", chk, addr, creator,
                                 escrow_id, r.err)
           /\ UNCHANGED <<profile, last03, others03>>

DoSecureDepositToEscrow ==
    \E addr \in EscrowAddrs, creator \in Keys, is_signer \in BOOLEAN,
       amount \in Amounts03 :
        LET chk == SecureAccessEscrow(escrow, addr, creator, is_signer)
            r   == IF chk = "Ok" THEN secure_deposit_to_escrow(escrow[addr], amount)
                   ELSE [err |-> chk]
        IN /\ escrow' = IF r.err = "Ok" THEN [escrow EXCEPT ![addr] = r.escrow]
                        ELSE escrow
           /\ last03e' = [op |-> "secure_deposit_to_escrow", addr |-> addr,
                          signer |-> IF is_signer THEN creator ELSE NoKey,
                          arg |-> amount, err |-> r.err]
           /\ UNCHANGED <<profile, last03, others03>>

Init03 ==
    /\ profile = [a \in ProfileAddrs |-> NoProfile]
    /\ last03 = NoCall03
    /\ escrow = [a \in EscrowAddrs |-> NoEscrow]
    /\ last03e = NoCall03e

Next03Escrow ==
    \/ DoVulnerableCreateEscrow
    \/ DoSecureCreateEscrow
    \/ DoSecureDepositToEscrow

Next03 ==
    \/ DoVulnerableCreateProfile
    \/ DoSecureCreateProfile

\* =========================================================================
\* Program 04: unsafe_cpi_token_transfer
\* Token accounts belong to the SPL Token program: their owner and mint are
\* fixed, their amount changes through token::transfer only.
\* vulnerable_arbitrary_cpi invokes a program of the caller's choice with the
\* authority's signature: that program cannot write a Splitter, which this
\* program owns, and can have the Token program move the authority's tokens.
\* =========================================================================
ShareMax == 10000               \* require!(recipient_share_bps <= 10000, ...)
Shares == {5000, ShareMax, ShareMax + 1}
Amounts04 == {1, StartTokens}
Splitters == {SplitterAuthority}    \* splitter i is at seeds [b"splitter", key i]

\* <<owner, mint>>: one account of mint "A" per key, one account of mint "B".
TokenAccts == (Keys \X {"A"}) \cup {<<SplitterAuthority, "B">>}
Owner(t) == t[1]
Mint(t) == t[2]

NoSplitter ==
    [init |-> FALSE, authority |-> NoKey, treasury |-> NoKey,
     recipient |-> NoKey, recipient_share_bps |-> 0]

NoCall04 ==
    [op |-> "none", arg |-> 0, src_owner_ok |-> FALSE, rcp_owner_ok |-> FALSE,
     trs_owner_ok |-> FALSE, mints_ok |-> FALSE, err |-> "none"]

\* Errors of the checks that come before the token-account constraints.
BaseErrors04 ==
    {"AccountNotInitialized", "AccountNotSigner", "ConstraintSeeds", "ConstraintHasOne"}

\* The record of a secure split: the four conditions on the token accounts
\* passed, evaluated on the state before the call once the checks that come
\* before them passed, and the result.
Call04(op, sp, authority, is_signer, src, rcp, trs, err) ==
    LET reached == err \notin BaseErrors04
    IN  [op |-> op,
         arg |-> 0,
         src_owner_ok |-> reached /\ is_signer /\ Owner(src) = authority,
         rcp_owner_ok |-> reached /\ Owner(rcp) = splitter[sp].recipient,
         trs_owner_ok |-> reached /\ Owner(trs) = splitter[sp].treasury,
         mints_ok |-> reached /\ Mint(src) = Mint(rcp) /\ Mint(src) = Mint(trs),
         err |-> err]

\* ---- account constraints -------------------------------------------------
InitializeSplitter(sps, sp, authority, is_signer) ==
    IF ~is_signer THEN "AccountNotSigner"
    ELSE IF sp # authority THEN "ConstraintSeeds"
    ELSE IF sps[sp].init THEN "AccountAlreadyInUse"
    ELSE "Ok"

\* VulnerableSplitPayment: splitter at seeds [b"splitter", authority], the
\* three token accounts and the token program unchecked.
VulnerableSplitPayment(sps, sp, authority, is_signer) ==
    IF ~sps[sp].init THEN "AccountNotInitialized"
    ELSE IF ~is_signer THEN "AccountNotSigner"
    ELSE IF sp # authority THEN "ConstraintSeeds"
    ELSE "Ok"

\* SecureSplitPayment: has_ones_ok says that the `treasury` and `recipient`
\* accounts passed are the splitter's (has_one = treasury, has_one = recipient).
SecureSplitPayment_NoRecipientCheck(sps, sp, authority, is_signer, has_ones_ok, src, rcp, trs) ==
    IF ~sps[sp].init THEN "AccountNotInitialized"
    ELSE IF ~is_signer THEN "AccountNotSigner"
    ELSE IF sp # authority THEN "ConstraintSeeds"
    ELSE IF sps[sp].authority # authority \/ ~has_ones_ok THEN "ConstraintHasOne"
    ELSE IF Owner(src) # authority THEN "InvalidSourceOwner"
    ELSE IF Mint(src) # Mint(rcp) THEN "MintMismatch"
    ELSE IF Mint(rcp) # Mint(src) THEN "MintMismatch"
    ELSE IF Owner(trs) # sps[sp].treasury THEN "InvalidTreasury"
    ELSE IF Mint(trs) # Mint(src) THEN "MintMismatch"
    ELSE "Ok"

SecureSplitPayment(sps, sp, authority, is_signer, has_ones_ok, src, rcp, trs) ==
    IF ~sps[sp].init THEN "AccountNotInitialized"
    ELSE IF ~is_signer THEN "AccountNotSigner"
    ELSE IF sp # authority THEN "ConstraintSeeds"
    ELSE IF sps[sp].authority # authority \/ ~has_ones_ok THEN "ConstraintHasOne"
    ELSE IF Owner(src) # authority THEN "InvalidSourceOwner"
    ELSE IF Mint(src) # Mint(rcp) THEN "MintMismatch"
    ELSE IF Owner(rcp) # sps[sp].recipient THEN "InvalidRecipient"
    ELSE IF Mint(rcp) # Mint(src) THEN "MintMismatch"
    ELSE IF Owner(trs) # sps[sp].treasury THEN "InvalidTreasury"
    ELSE IF Mint(trs) # Mint(src) THEN "MintMismatch"
    ELSE "Ok"

\* ---- handler bodies --------------------------------------------------------
initialize_splitter_NoShareCheck(authority, treasury, recipient, recipient_share_bps) ==
    [err |-> "Ok",
     splitter |-> [init |-> TRUE, authority |-> authority,
                   treasury |-> treasury, recipient |-> recipient,
                   recipient_share_bps |-> recipient_share_bps]]

initialize_splitter(authority, treasury, recipient, recipient_share_bps) ==
    IF ~(recipient_share_bps <= ShareMax)
    THEN [err |-> "InvalidShare", splitter |-> NoSplitter]
    ELSE [err |-> "Ok",
          splitter |-> [init |-> TRUE, authority |-> authority,
                        treasury |-> treasury, recipient |-> recipient,
                        recipient_share_bps |-> recipient_share_bps]]

\* token::transfer of the SPL Token program: [err, the amounts after it].
transfer(amounts, from, to, authority, amount) ==
    IF Mint(from) # Mint(to) THEN [err |-> "TokenMintMismatch", tok |-> amounts]
    ELSE IF Owner(from) # authority THEN [err |-> "TokenOwnerMismatch", tok |-> amounts]
    ELSE IF amounts[from] < amount THEN [err |-> "TokenInsufficientFunds", tok |-> amounts]
    ELSE IF from = to THEN [err |-> "Ok", tok |-> amounts]
    ELSE [err |-> "Ok",
          tok |-> [amounts EXCEPT ![from] = @ - amount, ![to] = @ + amount]]

\* The body shared by vulnerable_split_payment and secure_split_payment.
split_payment(sp, amounts, authority, src, rcp, trs, amount) ==
    LET recipient_amount == (amount * sp.recipient_share_bps) \div 10000
        treasury_amount  == amount - recipient_amount
        t1 == transfer(amounts, src, rcp, authority, recipient_amount)
        t2 == transfer(t1.tok, src, trs, authority, treasury_amount)
    IN  IF t1.err # "Ok" THEN t1 ELSE t2

vulnerable_split_payment(sp, amounts, authority, src, rcp, trs, amount) ==
    split_payment(sp, amounts, authority, src, rcp, trs, amount)

secure_split_payment(sp, amounts, authority, src, rcp, trs, amount) ==
    split_payment(sp, amounts, authority, src, rcp, trs, amount)

\* ---- instructions ---------------------------------------------------------
DoInitializeSplitter ==
    \E sp \in Splitters, authority \in Keys, is_signer \in BOOLEAN,
       treasury \in Keys, recipient \in Keys, share \in Shares :
        LET chk == InitializeSplitter(splitter, sp, authority, is_signer)
            r   == IF chk = "Ok"
                   THEN initialize_splitter(authority, treasury, recipient, share)
                   ELSE [err |-> chk]
        IN /\ splitter' = IF r.err = "Ok" THEN [splitter EXCEPT ![sp] = r.splitter]
                          ELSE splitter
           /\ last04' = [NoCall04 EXCEPT !.op = "initialize_splitter",
                                         !.arg = share, !.err = r.err]
           /\ UNCHANGED <<tok, others04>>

DoVulnerableSplitPayment ==
    \E sp \in Splitters, authority \in Keys, is_signer \in BOOLEAN,
       src \in TokenAccts, rcp \in TokenAccts, trs \in TokenAccts,
       amount \in Amounts04 :
        LET chk == VulnerableSplitPayment(splitter, sp, authority, is_signer)
            r   == IF chk = "Ok"
                   THEN vulnerable_split_payment(splitter[sp], tok, authority,
                                                 src, rcp, trs, amount)
                   ELSE [err |-> chk]
        IN /\ tok' = IF r.err = "Ok" THEN r.tok ELSE tok
           /\ last04' = [NoCall04 EXCEPT !.op = "vulnerable_split_payment", !.err = r.err]
           /\ UNCHANGED <<splitter, others04>>

DoSecureSplitPayment ==
    \E sp \in Splitters, authority \in Keys, is_signer \in BOOLEAN,
       has_ones_ok \in BOOLEAN,
       src \in TokenAccts, rcp \in TokenAccts, trs \in TokenAccts,
       amount \in Amounts04 :
        LET chk == SecureSplitPayment(splitter, sp, authority, is_signer,
                                      has_ones_ok, src, rcp, trs)
            r   == IF chk = "Ok"
                   THEN secure_split_payment(splitter[sp], tok, authority,
                                             src, rcp, trs, amount)
                   ELSE [err |-> chk]
        IN /\ tok' = IF r.err = "Ok" THEN r.tok ELSE tok
           /\ last04' = Call04("secure_split_payment", sp, authority,
                               is_signer, src, rcp, trs, r.err)
           /\ UNCHANGED <<splitter, others04>>

\* What the program invoked by vulnerable_arbitrary_cpi does is the caller's
\* choice: it fails, it does nothing, or it has the Token program transfer
\* `amount` from from_account to to_account with the authority's signature.
InvokedOutcomes == {"fails", "nothing", "transfer"}

vulnerable_arbitrary_cpi(amounts, outcome, from, to, authority, amount) ==
    IF outcome = "fails" THEN [err |-> "InvokedProgramFailed", tok |-> amounts]
    ELSE IF outcome = "nothing" THEN [err |-> "Ok", tok |-> amounts]
    ELSE transfer(amounts, from, to, authority, amount)

DoVulnerableArbitraryCpi ==
    \E authority \in Keys, is_signer \in BOOLEAN, outcome \in InvokedOutcomes,
       from \in TokenAccts, to \in TokenAccts, amount \in Amounts04 :
        LET chk == IF is_signer THEN "Ok" ELSE "AccountNotSigner"
            r   == IF chk = "Ok"
                   THEN vulnerable_arbitrary_cpi(tok, outcome, from, to, authority, amount)
                   ELSE [err |-> chk]
        IN /\ tok' = IF r.err = "Ok" THEN r.tok ELSE tok
           /\ last04' = [NoCall04 EXCEPT !.op = "vulnerable_arbitrary_cpi", !.err = r.err]
           /\ UNCHANGED <<splitter, others04>>

Init04 ==
    /\ splitter = [sp \in Splitters |-> NoSplitter]
    /\ tok = [t \in TokenAccts |->
                 IF t = <<SplitterAuthority, "A">> THEN StartTokens ELSE 0]
    /\ last04 = NoCall04

Next04 ==
    \/ DoInitializeSplitter
    \/ DoVulnerableSplitPayment
    \/ DoVulnerableArbitraryCpi
    \/ DoSecureSplitPayment

\* =========================================================================
\* Program 05: integer_overflow_state_bug
\* Pool and Stake are modelled by the fields deposit, withdraw and compound
\* read and write (total_staked, amount, owner, pool); the reward fields are
\* written only by the claim_rewards / update_pool instructions, which touch
\* nothing else.
\* =========================================================================
MaxStake == 2                   \* 1_000_000_000, scaled to the 2-bit word
MaxMultiplier == 10             \* multiplier <= 10
Pools == {PoolAuthority}        \* pool i is the one at seeds [b"pool", key i]
StakeIds == Pools \X (1..NumStakers)   \* <<pool, owner>> of the seeds of a Stake
Amounts05 == 0..U64Max
Multipliers == {0, 1, 2, 3, MaxMultiplier, MaxMultiplier + 1}

NoPool == [init |-> FALSE, authority |-> NoKey, total_staked |-> 0]
NoStake == [init |-> FALSE, owner |-> NoKey, pool |-> 0, amount |-> 0]

NoCall05 ==
    [op |-> "none", pool |-> 0, stake |-> <<0, 0>>, signer |-> NoKey,
     arg |-> 0, err |-> "none"]

\* The record of a call: its inputs are kept when the account constraints
\* passed (chk = "Ok"), a call rejected by a constraint keeps its error only.
Call05(op, chk, p, s, signer, arg, err) ==
    IF chk = "Ok"
    THEN [op |-> op, pool |-> p, stake |-> s, signer |-> signer,
          arg |-> arg, err |-> err]
    ELSE [op |-> op, pool |-> 0, stake |-> <<0, 0>>, signer |-> NoKey,
          arg |-> 0, err |-> err]

\* u64 arithmetic
checked_add(x, y) == IF x + y > U64Max THEN -1 ELSE x + y
checked_sub(x, y) == IF x < y THEN -1 ELSE x - y
checked_mul(x, y) == IF x * y > U64Max THEN -1 ELSE x * y
wrapping(x) == x % (U64Max + 1)

\* ---- account constraints -------------------------------------------------
InitializePool(pools, p, authority, is_signer) ==
    IF ~is_signer THEN "AccountNotSigner"
    ELSE IF p # authority THEN "ConstraintSeeds"
    ELSE IF pools[p].init THEN "AccountAlreadyInUse"
    ELSE "Ok"

InitializeStake(pools, stakes, p, s, owner, is_signer) ==
    IF ~pools[p].init THEN "AccountNotInitialized"
    ELSE IF ~is_signer THEN "AccountNotSigner"
    ELSE IF s # <<p, owner>> THEN "ConstraintSeeds"
    ELSE IF stakes[s].init THEN "AccountAlreadyInUse"
    ELSE "Ok"

\* VulnerableStake: any Pool, any Stake with has_one = owner.
VulnerableStake(pools, stakes, p, s, owner, is_signer) ==
    IF ~pools[p].init \/ ~stakes[s].init THEN "AccountNotInitialized"
    ELSE IF ~is_signer THEN "AccountNotSigner"
    ELSE IF stakes[s].owner # owner THEN "ConstraintHasOne"
    ELSE "Ok"

\* SecureStake: stake at seeds [b"stake", pool, owner], has_one = owner,
\* has_one = pool.
SecureStake(pools, stakes, p, s, owner, is_signer) ==
    IF ~pools[p].init \/ ~stakes[s].init THEN "AccountNotInitialized"
    ELSE IF ~is_signer THEN "AccountNotSigner"
    ELSE IF s # <<p, owner>> THEN "ConstraintSeeds"
    ELSE IF stakes[s].owner # owner THEN "ConstraintHasOne"
    ELSE IF stakes[s].pool # p THEN "ConstraintHasOne"
    ELSE "Ok"

\* ---- handler bodies: [err, pool and stake as the handler left them] -------
\* `wraps` is the build: TRUE when u64 `+ - *` wrap (release, no overflow
\* checks), FALSE when they panic.
initialize_pool(authority) ==
    [err |-> "Ok",
     pool |-> [init |-> TRUE, authority |-> authority, total_staked |-> 0],
     stake |-> NoStake]

initialize_stake(pl, p, owner) ==
    [err |-> "Ok", pool |-> pl,
     stake |-> [init |-> TRUE, owner |-> owner, pool |-> p, amount |-> 0]]

vulnerable_deposit(pl, st, amount, wraps) ==
    IF ~wraps /\ pl.total_staked + amount > U64Max
    THEN [err |-> "Panic", pool |-> pl, stake |-> st]
    ELSE LET pl1 == [pl EXCEPT !.total_staked = wrapping(@ + amount)]
         IN  IF ~wraps /\ st.amount + amount > U64Max
             THEN [err |-> "Panic", pool |-> pl1, stake |-> st]
             ELSE [err |-> "Ok", pool |-> pl1,
                   stake |-> [st EXCEPT !.amount = wrapping(@ + amount)]]

vulnerable_withdraw05(pl, st, amount, wraps) ==
    IF ~wraps /\ pl.total_staked < amount
    THEN [err |-> "Panic", pool |-> pl, stake |-> st]
    ELSE LET pl1 == [pl EXCEPT !.total_staked = wrapping(@ - amount)]
         IN  IF ~wraps /\ st.amount < amount
             THEN [err |-> "Panic", pool |-> pl1, stake |-> st]
             ELSE [err |-> "Ok", pool |-> pl1,
                   stake |-> [st EXCEPT !.amount = wrapping(@ - amount)]]

vulnerable_compound_ValidateFirst(pl, st, multiplier, wraps) ==
    IF ~wraps /\ st.amount * multiplier > U64Max
    THEN [err |-> "Panic", pool |-> pl, stake |-> st]
    ELSE IF ~(wrapping(st.amount * multiplier) <= MaxStake)
    THEN [err |-> "StakeTooLarge", pool |-> pl, stake |-> st]
    ELSE [err |-> "Ok", pool |-> pl,
          stake |-> [st EXCEPT !.amount = wrapping(@ * multiplier)]]

vulnerable_compound(pl, st, multiplier, wraps) ==
    IF ~wraps /\ st.amount * multiplier > U64Max
    THEN [err |-> "Panic", pool |-> pl, stake |-> st]
    ELSE LET st1 == [st EXCEPT !.amount = wrapping(@ * multiplier)]
         IN  IF ~(st1.amount <= MaxStake)
             THEN [err |-> "StakeTooLarge", pool |-> pl, stake |-> st1]
             ELSE [err |-> "Ok", pool |-> pl, stake |-> st1]

secure_deposit_Unchecked(pl, st, amount) ==
    [err |-> "Ok",
     pool |-> [pl EXCEPT !.total_staked = wrapping(@ + amount)],
     stake |-> [st EXCEPT !.amount = wrapping(@ + amount)]]

secure_deposit(pl, st, amount) ==
    IF checked_add(pl.total_staked, amount) = -1
    THEN [err |-> "ArithmeticOverflow", pool |-> pl, stake |-> st]
    ELSE LET pl1 == [pl EXCEPT !.total_staked = checked_add(@, amount)]
         IN  IF checked_add(st.amount, amount) = -1
             THEN [err |-> "ArithmeticOverflow", pool |-> pl1, stake |-> st]
             ELSE [err |-> "Ok", pool |-> pl1,
                   stake |-> [st EXCEPT !.amount = checked_add(@, amount)]]

secure_withdraw05_NoBalanceCheck(pl, st, amount) ==
    IF checked_sub(st.amount, amount) = -1
    THEN [err |-> "ArithmeticUnderflow", pool |-> pl, stake |-> st]
    ELSE LET st1 == [st EXCEPT !.amount = checked_sub(@, amount)]
         IN  IF checked_sub(pl.total_staked, amount) = -1
             THEN [err |-> "ArithmeticUnderflow", pool |-> pl, stake |-> st1]
             ELSE [err |-> "Ok", stake |-> st1,
                   pool |-> [pl EXCEPT !.total_staked = checked_sub(@, amount)]]

secure_withdraw05(pl, st, amount) ==
    IF ~(st.amount >= amount)
    THEN [err |-> "InsufficientBalance", pool |-> pl, stake |-> st]
    ELSE IF checked_sub(st.amount, amount) = -1
    THEN [err |-> "ArithmeticUnderflow", pool |-> pl, stake |-> st]
    ELSE LET st1 == [st EXCEPT !.amount = checked_sub(@, amount)]
         IN  IF checked_sub(pl.total_staked, amount) = -1
             THEN [err |-> "ArithmeticUnderflow", pool |-> pl, stake |-> st1]
             ELSE [err |-> "Ok", stake |-> st1,
                   pool |-> [pl EXCEPT !.total_staked = checked_sub(@, amount)]]

secure_compound_NoCap(pl, st, multiplier) ==
    IF ~(multiplier > 0 /\ multiplier <= MaxMultiplier)
    THEN [err |-> "InvalidMultiplier", pool |-> pl, stake |-> st]
    ELSE IF checked_mul(st.amount, multiplier) = -1
    THEN [err |-> "ArithmeticOverflow", pool |-> pl, stake |-> st]
    ELSE [err |-> "Ok", pool |-> pl,
          stake |-> [st EXCEPT !.amount = checked_mul(@, multiplier)]]

secure_compound(pl, st, multiplier) ==
    IF ~(multiplier > 0 /\ multiplier <= MaxMultiplier)
    THEN [err |-> "InvalidMultiplier", pool |-> pl, stake |-> st]
    ELSE IF checked_mul(st.amount, multiplier) = -1
    THEN [err |-> "ArithmeticOverflow", pool |-> pl, stake |-> st]
    ELSE IF ~(checked_mul(st.amount, multiplier) <= MaxStake)
    THEN [err |-> "StakeTooLarge", pool |-> pl, stake |-> st]
    ELSE [err |-> "Ok", pool |-> pl,
          stake |-> [st EXCEPT !.amount = checked_mul(@, multiplier)]]

\* ---- instructions ---------------------------------------------------------
\* The builds that differ on a call: both when its arithmetic leaves the u64
\* range, one otherwise.
Builds(x, y) == IF x < 0 \/ x > U64Max \/ y < 0 \/ y > U64Max THEN BOOLEAN ELSE {TRUE}

\* Persist the accounts of a successful instruction.
Persist05(r, p, s) ==
    /\ pool'  = IF r.err = "Ok" THEN [pool EXCEPT ![p] = r.pool] ELSE pool
    /\ stake' = IF r.err = "Ok" THEN [stake EXCEPT ![s] = r.stake] ELSE stake

DoInitializePool ==
    \E p \in Pools, authority \in Keys, is_signer \in BOOLEAN :
        LET chk == InitializePool(pool, p, authority, is_signer)
            r   == IF chk = "Ok" THEN initialize_pool(authority)
                   ELSE [err |-> chk]
        IN /\ pool' = IF r.err = "Ok" THEN [pool EXCEPT ![p] = r.pool] ELSE pool
           /\ last05' = Call05("initialize_pool", chk, p, <<0, 0>>, authority, 0, r.err)
           /\ UNCHANGED <<stake, others05>>

DoInitializeStake ==
    \E p \in Pools, s \in StakeIds, owner \in Keys, is_signer \in BOOLEAN :
        LET chk == InitializeStake(pool, stake, p, s, owner, is_signer)
            r   == IF chk = "Ok" THEN initialize_stake(pool[p], p, owner)
                   ELSE [err |-> chk]
        IN /\ stake' = IF r.err = "Ok" THEN [stake EXCEPT ![s] = r.stake] ELSE stake
           /\ last05' = Call05("initialize_stake", chk, p, s, owner, 0, r.err)
           /\ UNCHANGED <<pool, others05>>

DoVulnerableDeposit ==
    \E p \in Pools, s \in StakeIds, owner \in Keys, is_signer \in BOOLEAN,
       amount \in Amounts05 :
      \E wraps \in Builds(pool[p].total_staked + amount, stake[s].amount + amount) :
        LET chk == VulnerableStake(pool, stake, p, s, owner, is_signer)
            r   == IF chk = "Ok" THEN vulnerable_deposit(pool[p], stake[s], amount, wraps)
                   ELSE [err |-> chk]
        IN /\ Persist05(r, p, s)
           /\ last05' = Call05("vulnerable_deposit", chk, p, s, owner, amount, r.err)
           /\ UNCHANGED others05

DoVulnerableWithdraw05 ==
    \E p \in Pools, s \in StakeIds, owner \in Keys, is_signer \in BOOLEAN,
       amount \in Amounts05 :
      \E wraps \in Builds(pool[p].total_staked - amount, stake[s].amount - amount) :
        LET chk == VulnerableStake(pool, stake, p, s, owner, is_signer)
            r   == IF chk = "Ok" THEN vulnerable_withdraw05(pool[p], stake[s], amount, wraps)
                   ELSE [err |-> chk]
        IN /\ Persist05(r, p, s)
           /\ last05' = Call05("vulnerable_withdraw", chk, p, s, owner, amount, r.err)
           /\ UNCHANGED others05

DoVulnerableCompound ==
    \E p \in Pools, s \in StakeIds, owner \in Keys, is_signer \in BOOLEAN,
       multiplier \in Multipliers :
      \E wraps \in Builds(0, stake[s].amount * multiplier) :
        LET chk == VulnerableStake(pool, stake, p, s, owner, is_signer)
            r   == IF chk = "Ok" THEN vulnerable_compound(pool[p], stake[s], multiplier, wraps)
                   ELSE [err |-> chk]
        IN /\ Persist05(r, p, s)
           /\ last05' = Call05("vulnerable_compound", chk, p, s, owner, multiplier, r.err)
           /\ UNCHANGED others05

DoSecureDeposit ==
    \E p \in Pools, s \in StakeIds, owner \in Keys, is_signer \in BOOLEAN,
       amount \in Amounts05 :
        LET chk == SecureStake(pool, stake, p, s, owner, is_signer)
            r   == IF chk = "Ok" THEN secure_deposit(pool[p], stake[s], amount)
                   ELSE [err |-> chk]
        IN /\ Persist05(r, p, s)
           /\ last05' = Call05("secure_deposit", chk, p, s, owner, amount, r.err)
           /\ UNCHANGED others05

DoSecureWithdraw05 ==
    \E p \in Pools, s \in StakeIds, owner \in Keys, is_signer \in BOOLEAN,
       amount \in Amounts05 :
        LET chk == SecureStake(pool, stake, p, s, owner, is_signer)
            r   == IF chk = "Ok" THEN secure_withdraw05(pool[p], stake[s], amount)
                   ELSE [err |-> chk]
        IN /\ Persist05(r, p, s)
           /\ last05' = Call05("secure_withdraw", chk, p, s, owner, amount, r.err)
           /\ UNCHANGED others05

DoSecureCompound ==
    \E p \in Pools, s \in StakeIds, owner \in Keys, is_signer \in BOOLEAN,
       multiplier \in Multipliers :
        LET chk == SecureStake(pool, stake, p, s, owner, is_signer)
            r   == IF chk = "Ok" THEN secure_compound(pool[p], stake[s], multiplier)
                   ELSE [err |-> chk]
        IN /\ Persist05(r, p, s)
           /\ last05' = Call05("secure_compound", chk, p, s, owner, multiplier, r.err)
           /\ UNCHANGED others05

Init05 ==
    /\ pool = [p \in Pools |-> NoPool]
    /\ stake = [s \in StakeIds |-> NoStake]
    /\ last05 = NoCall05

\* Every instruction of the program that writes total_staked or amount.
Next05 ==
    \/ DoInitializePool
    \/ DoInitializeStake
    \/ DoVulnerableDeposit
    \/ DoVulnerableWithdraw05
    \/ DoVulnerableCompound
    \/ DoSecureDeposit
    \/ DoSecureWithdraw05
    \/ DoSecureCompound

\* Initialisation and the secure instructions only.
Next05Secure ==
    \/ DoInitializePool
    \/ DoInitializeStake
    \/ DoSecureDeposit
    \/ DoSecureWithdraw05
    \/ DoSecureCompound

Init == Init01 /\ Init02 /\ Init03 /\ Init04 /\ Init05

Next02 ==
    \/ DoInitialize
    \/ DoSecureUpdateFee
    \/ DoSecurePause
    \/ DoSecureNominateAdmin
    \/ DoSecureAcceptAdmin

Next02Full ==
    \/ Next02
    \/ DoVulnerableUpdateFee
    \/ DoVulnerableTransferAdmin

Spec01 == Init /\ [][Next01]_vars
Spec01Secure == Init /\ [][Next01Secure]_vars
Spec02 == Init /\ [][Next02]_vars
Spec02Full == Init /\ [][Next02Full]_vars
Spec03 == Init /\ [][Next03]_vars
Spec03Escrow == Init /\ [][Next03Escrow]_vars
Spec04 == Init /\ [][Next04]_vars
Spec05 == Init /\ [][Next05]_vars
Spec05Secure == Init /\ [][Next05Secure]_vars

\* ---- claims about program 02 ----------------------------------------------
\* C3: secure_update_fee, secure_pause and secure_nominate_admin succeed only
\* when the account in the admin slot signed the transaction and its key is
\* config.admin at the time of the call; a call signed by any other key fails
\* with Unauthorized and leaves every Config field unchanged.
C3_OnlyAdminSignerUpdates ==
    [][ last02'.op \in {"secure_update_fee", "secure_pause", "secure_nominate_admin"}
        => /\ (last02'.err = "Ok"
                 => config.init /\ last02'.is_signer /\ last02'.signer = config.admin)
           /\ (config.init /\ last02'.is_signer /\ last02'.signer # config.admin
                 => last02'.err = "Unauthorized" /\ config' = config) ]_vars

C3_Witness ==
    /\ config.init
    /\ last02.op \in {"secure_update_fee", "secure_pause", "secure_nominate_admin"}
    /\ last02.is_signer
    /\ last02.signer # config.admin
    /\ last02.err = "Unauthorized"

\* C4: once the config exists, config.admin changes from A to B only in a
\* successful secure_accept_admin signed by B, and only if the most recent
\* successful nomination was secure_nominate_admin(B) signed by A, A being the
\* admin that is replaced.
C4_TwoStepAdminTransfer ==
    [][ config.init /\ config'.admin # config.admin
        => /\ last02'.op = "secure_accept_admin"
           /\ last02'.err = "Ok"
           /\ last02'.is_signer
           /\ last02'.signer = config'.admin
           /\ nomination.who = config'.admin
           /\ nomination.by = config.admin ]_vars

C4_Witness ==
    /\ last02.op = "secure_accept_admin"
    /\ last02.err = "Ok"
    /\ config.admin = last02.signer
    /\ nomination.who = config.admin
    /\ nomination.by # config.admin

\* C8: in every state reachable through initialize and the secure
\* instructions config.fee_bps <= 1000, and a secure_update_fee with
\* new_fee_bps > 1000 ended with FeeTooHigh.
C8_FeeNeverExceedsCap ==
    /\ config.init => config.fee_bps <= FeeMax
    /\ (last02.op = "secure_update_fee" /\ last02.err = "Ok") => last02.fee <= FeeMax

\* C9: once the config exists, every initialize call (any signer, any fee)
\* fails and leaves the Config unchanged.
C9_InitializeOnlyOnce ==
    [][ config.init /\ last02'.op = "initialize"
        => last02'.err # "Ok" /\ config' = config ]_vars

C9_Witness ==
    /\ config.init
    /\ last02.op = "initialize"
    /\ last02.is_signer
    /\ last02.err = "AccountAlreadyInUse"
    /\ last02.signer # config.admin

\* ---- claims about program 01 ----------------------------------------------
\* C1: secure_withdraw rejects every call whose signing withdrawer is not the
\* vault's recorded owner, whatever `owner` account is passed: a call that
\* succeeds has withdrawer = vault.owner, and a rejected call moves no
\* lamports out of vault_pda and leaves vault.balance unchanged.
C1_WithdrawerMustBeOwner ==
    [][ last01'.op = "secure_withdraw"
        => /\ (last01'.err = "Ok"
                 => last01'.signer = vault[last01'.vault].owner)
           /\ (last01'.err # "Ok" => pda' = pda /\ vault' = vault) ]_vars

\* C5: a secure_withdraw that passed its account constraints fails with
\* InsufficientFunds and changes nothing when amount > vault.balance, and
\* otherwise succeeds, decreases vault.balance by amount and moves amount
\* lamports from vault_pda to the withdrawer.
C5_WithdrawWithinBalance ==
    [][ last01'.op = "secure_withdraw" /\ last01'.vault # NoKey
        => LET v   == last01'.vault
               p   == last01'.vault_pda
               w   == last01'.signer
               amt == last01'.amount
           IN  IF amt > vault[v].balance
               THEN /\ last01'.err = "InsufficientFunds"
                    /\ UNCHANGED <<vault, pda, wallet>>
               ELSE /\ last01'.err = "Ok"
                    /\ vault' = [vault EXCEPT ![v].balance = @ - amt]
                    /\ pda' = [pda EXCEPT ![p] = @ - amt]
                    /\ wallet' = [wallet EXCEPT ![w] = @ + amt] ]_vars

\* ---- claims about program 05 ----------------------------------------------
\* C2: a secure_deposit that passed its account constraints fails with
\* ArithmeticOverflow and leaves pool.total_staked and stake.amount unchanged
\* when pool.total_staked + amount or stake.amount + amount exceeds u64::MAX;
\* otherwise it succeeds and increases both by exactly amount.
C2_DepositOverflowRejected ==
    [][ last05'.op = "secure_deposit" /\ last05'.signer # NoKey
        => LET p   == last05'.pool
               s   == last05'.stake
               amt == last05'.arg
           IN  IF \/ pool[p].total_staked + amt > U64Max
                  \/ stake[s].amount + amt > U64Max
               THEN /\ last05'.err = "ArithmeticOverflow"
                    /\ UNCHANGED <<pool, stake>>
               ELSE /\ last05'.err = "Ok"
                    /\ pool' = [pool EXCEPT ![p].total_staked = @ + amt]
                    /\ stake' = [stake EXCEPT ![s].amount = @ + amt] ]_vars

\* The deposit whose first addition fits and whose second one overflows.
C2_Witness ==
    /\ last05.op = "secure_deposit"
    /\ last05.err = "ArithmeticOverflow"
    /\ pool[last05.pool].total_staked + last05.arg <= U64Max
    /\ stake[last05.stake].amount + last05.arg > U64Max

\* C6: a secure_withdraw that passed its account constraints fails with
\* InsufficientBalance when amount > stake.amount and with ArithmeticUnderflow
\* when only pool.total_staked is smaller than amount; every failure leaves
\* stake.amount and pool.total_staked unchanged, and a success decreases both
\* by exactly amount.
C6_WithdrawAllOrNothing ==
    [][ last05'.op = "secure_withdraw" /\ last05'.signer # NoKey
        => LET p   == last05'.pool
               s   == last05'.stake
               amt == last05'.arg
           IN  /\ amt > stake[s].amount => last05'.err = "InsufficientBalance"
               /\ (amt <= stake[s].amount /\ amt > pool[p].total_staked)
                     => last05'.err = "ArithmeticUnderflow"
               /\ last05'.err # "Ok" => UNCHANGED <<pool, stake>>
               /\ last05'.err = "Ok"
                     => /\ pool' = [pool EXCEPT ![p].total_staked = @ - amt]
                        /\ stake' = [stake EXCEPT ![s].amount = @ - amt] ]_vars

\* A withdrawal of more than a non-empty stake holds.
C6_Witness ==
    /\ last05.op = "secure_withdraw"
    /\ last05.err = "InsufficientBalance"
    /\ last05.arg > stake[last05.stake].amount
    /\ stake[last05.stake].amount > 0

\* C12: secure_compound validates before it writes and is all-or-nothing: it
\* fails with InvalidMultiplier unless 1 <= multiplier <= 10, with
\* ArithmeticOverflow when stake.amount * multiplier exceeds u64::MAX, with
\* StakeTooLarge when the product exceeds 1_000_000_000; a failing call leaves
\* pool and stake unchanged; a successful one sets stake.amount to the old
\* amount times multiplier, which is at most 1_000_000_000, and nothing else.
C12_CompoundAllOrNothing ==
    [][ last05'.op = "secure_compound" /\ last05'.signer # NoKey
        => LET s    == last05'.stake
               m    == last05'.arg
               prod == stake[s].amount * m
           IN  /\ last05'.err =
                     IF ~(1 <= m /\ m <= MaxMultiplier) THEN "InvalidMultiplier"
                     ELSE IF prod > U64Max THEN "ArithmeticOverflow"
                     ELSE IF prod > MaxStake THEN "StakeTooLarge"
                     ELSE "Ok"
               /\ last05'.err # "Ok" => UNCHANGED <<pool, stake>>
               /\ last05'.err = "Ok"
                     => /\ stake' = [stake EXCEPT ![s].amount = prod]
                        /\ stake'[s].amount <= MaxStake
                        /\ pool' = pool ]_vars

\* A secure_compound that doubled a stake.
C12_Witness ==
    /\ last05.op = "secure_compound"
    /\ last05.err = "Ok"
    /\ last05.arg = 2
    /\ stake[last05.stake].amount = 2

\* C13: secure_deposit_to_escrow succeeds only when signed by the escrow's
\* recorded creator and when the escrow's address re-derives from its stored
\* creator, recipient, escrow_id and bump; an escrow created by
\* secure_create_escrow stores the canonical bump, no instruction changes the
\* creator, recipient, escrow_id or bump of an escrow that exists, and the
\* creator's deposit into an escrow that stores the canonical bump succeeds
\* unless the amount overflows u64; a successful deposit adds exactly the
\* amount to escrow.amount and changes nothing else, a failed one nothing.
C13_EscrowDeposit ==
    [][ /\ last03e'.op = "secure_deposit_to_escrow"
              => LET a    == last03e'.addr
                     e    == escrow[a]
                     sd   == <<e.creator, e.recipient, e.escrow_id>>
                     amt  == last03e'.arg
                 IN  /\ last03e'.err = "Ok"
                          => /\ e.init
                             /\ last03e'.signer = e.creator
                             /\ a = EscrowPda(sd, e.bump)
                             /\ escrow' = [escrow EXCEPT ![a].amount = e.amount + amt]
                     /\ last03e'.err # "Ok" => escrow' = escrow
                     /\ (/\ e.init
                         /\ e.bump = CanonicalBump(sd)
                         /\ last03e'.signer = e.creator
                         /\ e.amount + amt <= U64Max) => last03e'.err = "Ok"
        /\ (last03e'.op = "secure_create_escrow" /\ last03e'.err = "Ok")
              => LET a == last03e'.addr
                     e == escrow'[a]
                 IN  /\ ~escrow[a].init /\ e.init
                     /\ e.creator = last03e'.signer
                     /\ e.bump = CanonicalBump(<<e.creator, e.recipient, e.escrow_id>>)
                     /\ a = EscrowAddr(<<e.creator, e.recipient, e.escrow_id>>)
        /\ \A a \in EscrowAddrs :
              escrow[a].init => escrow'[a] = [escrow[a] EXCEPT !.amount = escrow'[a].amount]
      ]_vars

\* The creator's second deposit into an escrow made by secure_create_escrow.
C13_Witness ==
    /\ last03e.op = "secure_deposit_to_escrow"
    /\ last03e.err = "Ok"
    /\ last03e.arg > 0
    /\ escrow[last03e.addr].amount > last03e.arg
    /\ escrow[last03e.addr].creator = last03e.signer
    /\ escrow[last03e.addr].bump =
          CanonicalBump(<<escrow[last03e.addr].creator, escrow[last03e.addr].recipient,
                          escrow[last03e.addr].escrow_id>>)

\* C14: vulnerable_withdraw lets a signer W drain the vault_pda of another
\* user with a vault account of W's own making: in every state, for every W,
\* every vault_pda and every amount the vault_pda holds, the handler run on
\* vault data with owner = W and balance >= amount succeeds and moves amount
\* lamports from the vault_pda to W; and every vulnerable_withdraw that
\* succeeds had vault data with owner = the signer, moved exactly amount from
\* the vault_pda passed to the signer, and wrote no Vault.
C14_FakeVaultDrains ==
    /\ [](\A W \in Keys, p \in VaultIds, amount \in Amounts, balance \in Amounts :
            (balance >= amount /\ pda[p] >= amount)
               => LET a == Accts01([init |-> TRUE, owner |-> W, balance |-> balance],
                                   pda[p], wallet[W])
                      r == vulnerable_withdraw(a, W, amount)
                  IN  /\ r.err = "Ok"
                      /\ r.a.vault_pda = pda[p] - amount
                      /\ r.a.signer = wallet[W] + amount)
    /\ [][ (last01'.op = "vulnerable_withdraw" /\ last01'.err = "Ok")
              => LET p   == last01'.vault_pda
                     W   == last01'.signer
                     amt == last01'.amount
                 IN  /\ last01'.owner = W
                     /\ pda' = [pda EXCEPT ![p] = @ - amt]
                     /\ wallet' = [wallet EXCEPT ![W] = @ + amt]
                     /\ vault' = vault ]_vars

\* A signer who has no vault took lamports out of the vault_pda of the key
\* that initialised and funded it.
C14_Witness ==
    /\ last01.op = "vulnerable_withdraw"
    /\ last01.err = "Ok"
    /\ last01.amount > 0
    /\ last01.signer \notin VaultIds
    /\ vault[last01.vault_pda].init
    /\ vault[last01.vault_pda].owner # last01.signer
    /\ vault[last01.vault_pda].balance > pda[last01.vault_pda]
    /\ wallet[last01.signer] >= last01.amount

\* C15: vulnerable_transfer_admin lets anyone become the admin: whoever signs
\* and whatever new_admin is supplied, the call on an initialised config
\* succeeds whatever config.admin and config.pending_admin are, sets
\* config.admin to new_admin in that one instruction and changes no other
\* field of the config.
C15_AnyoneBecomesAdmin ==
    [][ last02'.op = "vulnerable_transfer_admin"
        => /\ (config.init /\ last02'.is_signer)
                 => /\ last02'.err = "Ok"
                    /\ config' = [config EXCEPT !.admin = last02'.key]
           /\ last02'.err # "Ok" => config' = config ]_vars

\* A signer who is not the admin installed another key as admin while a
\* nomination was pending.
C15_Witness ==
    /\ last02.op = "vulnerable_transfer_admin"
    /\ last02.err = "Ok"
    /\ config.admin = last02.key
    /\ last02.signer # config.admin
    /\ config.pending_admin # NoKey
    /\ config.pending_admin # config.admin

C7_SplitOnlyToVerifiedAccounts ==
    [][ last04'.op = "secure_split_payment"
        => LET ok == /\ last04'.src_owner_ok
                     /\ last04'.rcp_owner_ok
                     /\ last04'.trs_owner_ok
                     /\ last04'.mints_ok
           IN  /\ last04'.err = "Ok" => ok
               /\ tok' # tok => ok
               /\ ~ok => last04'.err # "Ok" /\ tok' = tok
               /\ (~ok /\ last04'.err \notin BaseErrors04)
                     => last04'.err \in {"InvalidSourceOwner", "InvalidRecipient",
                                         "InvalidTreasury", "MintMismatch"} ]_vars

\* A split by the splitter's authority from its own account, refused because
\* the recipient token account is not the recipient's.
C7_Witness ==
    /\ last04.op = "secure_split_payment"
    /\ last04.src_owner_ok
    /\ ~last04.rcp_owner_ok
    /\ last04.mints_ok
    /\ last04.err = "InvalidRecipient"

\* C11: a splitter's recipient share is at most 10000 bps in every state:
\* initialize_splitter with recipient_share_bps > 10000 fails and creates no
\* splitter, with InvalidShare when the call got as far as the handler, and no
\* instruction changes a field of a splitter that exists.
C11_ShareAtMostMaxAndFixed ==
    [][ /\ (last04'.op = "initialize_splitter" /\ last04'.arg > ShareMax)
              => /\ last04'.err # "Ok"
                 /\ splitter' = splitter
                 /\ last04'.err \notin {"AccountNotSigner", "ConstraintSeeds",
                                       "AccountAlreadyInUse"}
                       => last04'.err = "InvalidShare"
        /\ \A sp \in Splitters :
              /\ splitter[sp].init => splitter'[sp] = splitter[sp]
              /\ splitter'[sp].init => splitter'[sp].recipient_share_bps <= ShareMax ]_vars

\* An initialize_splitter with a share above 10000 bps, refused by the handler.
C11_Witness ==
    /\ last04.op = "initialize_splitter"
    /\ last04.arg > ShareMax
    /\ last04.err = "InvalidShare"
    /\ \A sp \in Splitters : ~splitter[sp].init

\* ---- claims about program 03 ----------------------------------------------
\* C10: secure_create_profile creates one profile per signer, and only the
\* signer's own: a call succeeds only for the address derived from the
\* signer's key, the profile it stores has authority = that signer, a call for
\* an address that already holds a profile fails and leaves it as it is, and a
\* call for the address of another key fails, whatever the username.
C10_OneProfilePerSigner ==
    [][ last03'.op = "secure_create_profile"
        => LET a == last03'.signer
               p == last03'.addr
           IN  /\ last03'.err = "Ok"
                    => /\ last03'.is_signer
                       /\ p = ProfilePda(KeyBytes(a))
                       /\ ~profile[p].init
                       /\ profile'[p].init
                       /\ profile'[p].authority = a
                       /\ \A q \in ProfileAddrs \ {p} : profile'[q] = profile[q]
               /\ last03'.err # "Ok" => profile' = profile
               /\ profile[p].init => last03'.err # "Ok"
               /\ p # ProfilePda(KeyBytes(a)) => last03'.err # "Ok" ]_vars

\* A second secure_create_profile by the signer who owns the profile there.
C10_Witness ==
    /\ last03.op = "secure_create_profile"
    /\ last03.is_signer
    /\ last03.addr = ProfilePda(KeyBytes(last03.signer))
    /\ profile[last03.addr].init
    /\ profile[last03.addr].authority = last03.signer
    /\ profile[last03.addr].bump = "canonical"
    /\ last03.err = "AccountAlreadyInUse"

====
